---------------------------- MODULE Spec2Model ----------------------------
(***************************************************************************)
(* A model of the dfsdisc library: the Acorn DFS catalogue codec           *)
(* (Disc::from_bytes, Disc::to_image), the entry mutation API of Disc      *)
(* (add_file, find_file, remove_file, increment_cycle) and the validated   *)
(* primitives (BCD, AsciiPrintingChar, AsciiName) the codec rests on.      *)
(*                                                                         *)
(* Bytes are the integers 0..255; a byte buffer is a sequence of bytes, so *)
(* the Rust index src[k] is the TLA+ element src[k + 1] (see At).          *)
(***************************************************************************)
EXTENDS Integers, Sequences, FiniteSets, TLC

VARIABLES
    src,     \* the byte buffer handed to Disc::from_bytes
    disc,    \* the Disc value the caller holds (NoDisc before there is one)
    ret,     \* what the last call returned
    target,  \* the bytes Disc::to_image has written to its io::Write sink
    pc       \* the caller's position: which call was made last

vars == <<src, disc, ret, target, pc>>

-----------------------------------------------------------------------------
(* Machine integers and bit operations.                                     *)

RECURSIVE Pow2(_)
Pow2(n) == IF n = 0 THEN 1 ELSE 2 * Pow2(n - 1)

U8(x) == x % 256
U16(x) == x % 65536
\* `as u32`: TLC's integers are 32-bit signed, and no u32 quantity of the code
\* modelled here reaches 2^31 (the largest are 255 << 14 and 0x3FF * 256 +
\* 0x3FFFF), so the cast changes nothing
U32(x) == x

RECURSIVE BitAnd(_, _)
BitAnd(a, b) ==
    IF a = 0 \/ b = 0 THEN 0
    ELSE (IF a % 2 = 1 /\ b % 2 = 1 THEN 1 ELSE 0) + 2 * BitAnd(a \div 2, b \div 2)

RECURSIVE BitOr(_, _)
BitOr(a, b) ==
    IF a = 0 THEN b
    ELSE IF b = 0 THEN a
    ELSE (IF a % 2 = 1 \/ b % 2 = 1 THEN 1 ELSE 0) + 2 * BitOr(a \div 2, b \div 2)

Shl(x, n) == x * Pow2(n)
Shr(x, n) == x \div Pow2(n)

-----------------------------------------------------------------------------
(* Byte buffers.                                                            *)

At(buf, k) == buf[k + 1]

\* the Rust slice buf[from .. to]
Slice(buf, from, to) == [i \in 1..(to - from) |-> buf[from + i]]

\* iter().take_while(pred).count() for the predicate "byte > limit"
RECURSIVE TakeWhileAbove(_, _)
TakeWhileAbove(buf, limit) ==
    IF buf = <<>> \/ ~(Head(buf) > limit) THEN 0
    ELSE 1 + TakeWhileAbove(Tail(buf), limit)

u16_from_le(s) == BitOr(Shl(At(s, 1), 8), At(s, 0))

to_le_bytes(x, n) == [i \in 1..n |-> Shr(x, 8 * (i - 1)) % 256]

-----------------------------------------------------------------------------
(* Result values.                                                           *)

Ok(v) == [ok |-> TRUE, val |-> v]
Err(e) == [ok |-> FALSE, err |-> e]

None == [some |-> FALSE]
Some(v) == [some |-> TRUE, val |-> v]

\* DFSError
InvalidValue == [tag |-> "InvalidValue"]
InputTooSmall(n) == [tag |-> "InputTooSmall", arg |-> n]
InputTooLarge(n) == [tag |-> "InputTooLarge", arg |-> n]
InvalidDiscData(n) == [tag |-> "InvalidDiscData", arg |-> n]
DuplicateFileName(s) == [tag |-> "DuplicateFileName", arg |-> s]

-----------------------------------------------------------------------------
(* support: BCD.  A BCD is modelled by its `value` byte.                    *)

\* BCD::from_u8 (named try_new by its callers in dfs/disc.rs)
BCD_from_u8(x) ==
    IF x <= 99 THEN Ok(U8(Shl(x \div 10, 4)) + (x % 10))
    ELSE Err("IntValueTooLarge")

BCD_try_new(x) == BCD_from_u8(x)

BCD_into_u8(value) == U8(Shr(value, 4) + BitAnd(value, 15))

BCD_from_hex(x) ==
    IF BitAnd(x, 240) >= 160 \/ BitAnd(x, 15) >= 10 THEN Err("InvalidHexValue")
    ELSE Ok(x)

\* BCD::C00, the constant the callers in dfs/disc.rs use for decimal 0
BCD_C00 == 0

-----------------------------------------------------------------------------
(* support: printable ASCII.                                                *)

\* from_u8 taking DEL (0x7F) for a printing character
AsciiPrintingChar_from_u8_with_del(x) ==
    IF x >= 32 /\ x <= 127 THEN Ok(x) ELSE Err("NotPrinting")

AsciiPrintingChar_from_u8(x) ==
    IF x >= 32 /\ x < 127 THEN Ok(x) ELSE Err("NotPrinting")

\* index (0-based) of the first byte of `bytes` that is no printing character,
\* Len(bytes) when there is none
RECURSIVE FirstNonPrinting(_)
FirstNonPrinting(bytes) ==
    IF bytes = <<>> \/ ~AsciiPrintingChar_from_u8(Head(bytes)).ok THEN 0
    ELSE 1 + FirstNonPrinting(Tail(bytes))

\* AsciiName<N>::try_from(&[u8]): every byte is validated and the index of the
\* first failing byte is reported through AsciiNameError::position()
AsciiName_try_from(N, bytes) ==
    IF FirstNonPrinting(bytes) < Len(bytes)
    THEN Err([position |-> FirstNonPrinting(bytes)])
    ELSE IF Len(bytes) > N THEN Err([position |-> N])
    ELSE Ok(bytes)

\* AsciiStr::up_to(n) and from_up_to(from..to): the characters that exist in
\* the range, fewer when the string is shorter
up_to(s, n) == SubSeq(s, 1, IF Len(s) < n THEN Len(s) ELSE n)
from_up_to(s, from, to) == SubSeq(s, from + 1, IF Len(s) < to THEN Len(s) ELSE to)

\* copy_space_padded on a destination of n bytes
copy_space_padded(n, s) == [i \in 1..n |-> IF i <= Len(s) THEN s[i] ELSE 32]

\* <[u8]>::as_min_slice::<[u8; n]>(): the first n bytes, an error when there
\* are fewer
as_min_slice(buf, n) == IF Len(buf) >= n THEN Ok(SubSeq(buf, 1, n)) ELSE Err("TooSmall")

\* usize::sectors(): the number of 256-byte sectors holding that many bytes
sectors(len) == (len + 255) \div 256

-----------------------------------------------------------------------------
(* dfs::file.  A File is the record of its five fields; its `name` field is *)
(* the Key.                                                                 *)

Key_new(name, dir) == [name |-> name, dir |-> dir]

File_new(name, dir, load_addr, exec_addr, is_locked, content) ==
    [name |-> Key_new(name, dir), load_addr |-> load_addr, exec_addr |-> exec_addr,
     is_locked |-> is_locked, content |-> content]

\* #[derive(Eq, PartialEq)] for Key
Key_eq(a, b) == a.name = b.name /\ a.dir = b.dir

\* #[derive(PartialEq, Eq)] for File: every field is compared
File_eq(a, b) ==
    /\ Key_eq(a.name, b.name)
    /\ a.load_addr = b.load_addr
    /\ a.exec_addr = b.exec_addr
    /\ a.is_locked = b.is_locked
    /\ a.content = b.content

\* impl Hash for Key / for File: the data fed to the hasher.  Equal data hash
\* equally; the model takes different data to hash differently.
Key_hash(k) == <<k.dir, k.name>>
File_hash(f) == Key_hash(f.name)

\* lexicographic order of byte strings (Ord for [u8])
RECURSIVE BytesLess(_, _)
BytesLess(a, b) ==
    IF b = <<>> THEN FALSE
    ELSE IF a = <<>> THEN TRUE
    ELSE IF Head(a) # Head(b) THEN Head(a) < Head(b)
    ELSE BytesLess(Tail(a), Tail(b))

\* impl Ord for Key: directory first, then name
Key_less(a, b) ==
    IF a.dir # b.dir THEN a.dir < b.dir ELSE BytesLess(a.name, b.name)

-----------------------------------------------------------------------------
(* std::collections::HashSet<File>, as dfs::disc uses it.  The set holds    *)
(* File values; a lookup finds an element with an equal hash that compares  *)
(* equal under the element type's Eq (File) or the borrowed type's Eq (Key).*)

HashSet_matches(files, file) ==
    {g \in files : File_hash(g) = File_hash(file) /\ File_eq(g, file)}

HashSet_contains(files, file) == HashSet_matches(files, file) # {}

HashSet_insert(files, file) ==
    IF HashSet_contains(files, file) THEN files ELSE files \cup {file}

\* the elements a lookup by borrowed Key can find
HashSet_keyed(files, key) ==
    {g \in files : Key_hash(g.name) = Key_hash(key) /\ Key_eq(g.name, key)}

-----------------------------------------------------------------------------
(* dfs::disc: constants and decoding.                                       *)

SECTOR_SIZE == 256
MAX_FILES == 31
MAX_SECTORS == 800

\* the length of HeaderSectors = [u8; 0x200]
HeaderSectorsLen == 512

NoDisc == [none |-> TRUE]

\* Disc::new()
Disc_new == [name |-> <<>>, boot_option |-> 0, cycle |-> BCD_C00, files |-> {}]

\* BootOption::try_from(u8); a BootOption is modelled by its discriminant
BootOption_try_from(x) == IF x \in 0..3 THEN Ok(x) ELSE Err(InvalidValue)

\* the 12 bytes of the disc name: 8 from sector 0, 4 from sector 1
DiscNameBuf(header_sectors) ==
    Slice(header_sectors, 0, 8) \o Slice(header_sectors, 256, 260)

\* the offset translation left out: the index into the 12-byte buffer
DiscNameErrOffset_untranslated(str_pos) == str_pos

\* the offset translation adding 0x100 to the index instead of 0xf8
DiscNameErrOffset_plus_0x100(str_pos) == IF str_pos >= 8 THEN str_pos + 256 ELSE str_pos

\* "Decode index position back to byte offset" in from_bytes
DiscNameErrOffset(str_pos) == IF str_pos >= 8 THEN str_pos + 248 ELSE str_pos

\* the disc name block with take_while(b >= 32): a space does not end the name
DecodeDiscName_space_kept(header_sectors) ==
    LET buf == DiscNameBuf(header_sectors)
        name_len == TakeWhileAbove(buf, 31)
        r == AsciiName_try_from(12, SubSeq(buf, 1, name_len))
    IN  IF r.ok THEN r ELSE Err(InvalidDiscData(DiscNameErrOffset(r.err.position)))

\* the disc name block of from_bytes
DecodeDiscName(header_sectors) ==
    LET buf == DiscNameBuf(header_sectors)
        name_len == TakeWhileAbove(buf, 32)
        r == AsciiName_try_from(12, SubSeq(buf, 1, name_len))
    IN  IF r.ok THEN r ELSE Err(InvalidDiscData(DiscNameErrOffset(r.err.position)))

\* the sector count block taking all of the byte at 0x106 as the high bits
DecodeSectorCount_unmasked(header_sectors) ==
    LET upper == Shl(At(header_sectors, 263 - 1), 8)
        result == BitOr(At(header_sectors, 263), upper)
    IN  IF result < 2 THEN Err(InvalidDiscData(263)) ELSE Ok(result)

\* the sector count block of from_bytes
DecodeSectorCount(header_sectors) ==
    LET upper == Shl(BitAnd(At(header_sectors, 263 - 1), 3), 8)
        result == BitOr(At(header_sectors, 263), upper)
    IN  IF result < 2 THEN Err(InvalidDiscData(263)) ELSE Ok(result)

\* the format!("{}.{}", dir, file.name()) of populate_files, as bytes
DisplayDirName(dir, name) == <<dir, 46>> \o name

\* the loop body testing the end of the data before its start
PopulateEntry_end_first(source, i, files) ==
    LET offset1 == U8(i * 8) + 8
        offset2 == U8(i * 8) + 264
        raw == At(source, offset1 + 7)
        dir == AsciiPrintingChar_from_u8(BitAnd(raw, 127))
        locked == raw > 127
        name_buf == Slice(source, offset1, offset1 + 7)
        name_len == TakeWhileAbove(name_buf, 32)
        name == AsciiName_try_from(7, SubSeq(name_buf, 1, name_len))
        busy_byte == At(source, offset2 + 6)
        load_addr == BitOr(u16_from_le(Slice(source, offset2, offset2 + 2)),
                           BitAnd(U32(Shl(busy_byte, 14)), 196608))
        exec_addr == BitOr(u16_from_le(Slice(source, offset2 + 2, offset2 + 4)),
                           BitAnd(U32(Shl(busy_byte, 10)), 196608))
        file_len == BitOr(u16_from_le(Slice(source, offset2 + 4, offset2 + 6)),
                          BitAnd(U32(Shl(busy_byte, 12)), 196608))
        start_sector == BitOr(At(source, offset2 + 7),
                              BitAnd(U32(Shl(busy_byte, 8)), 768))
        data_start == U32(start_sector * 256)
        data_end == U32(data_start + file_len)
        file == File_new(name.val, dir.val, load_addr, exec_addr, locked,
                         Slice(source, data_start, data_end))
    IN  IF ~dir.ok THEN Err(InvalidDiscData(offset1 + 7))
        ELSE IF ~name.ok THEN Err(InvalidDiscData(offset1 + name.err.position))
        ELSE IF data_end > U32(Len(source)) THEN Err(InvalidDiscData(offset2 + 6))
        ELSE IF data_start < 512 THEN Err(InvalidDiscData(offset2 + 7))
        ELSE IF HashSet_contains(files, file)
             THEN Err(DuplicateFileName(DisplayDirName(dir.val, name.val)))
        ELSE Ok(HashSet_insert(files, file))

\* the loop body taking the high bits of load and exec from each other's place
PopulateEntry_high_bits_swapped(source, i, files) ==
    LET offset1 == U8(i * 8) + 8
        offset2 == U8(i * 8) + 264
        raw == At(source, offset1 + 7)
        dir == AsciiPrintingChar_from_u8(BitAnd(raw, 127))
        locked == raw > 127
        name_buf == Slice(source, offset1, offset1 + 7)
        name_len == TakeWhileAbove(name_buf, 32)
        name == AsciiName_try_from(7, SubSeq(name_buf, 1, name_len))
        busy_byte == At(source, offset2 + 6)
        load_addr == BitOr(u16_from_le(Slice(source, offset2, offset2 + 2)),
                           BitAnd(U32(Shl(busy_byte, 10)), 196608))
        exec_addr == BitOr(u16_from_le(Slice(source, offset2 + 2, offset2 + 4)),
                           BitAnd(U32(Shl(busy_byte, 14)), 196608))
        file_len == BitOr(u16_from_le(Slice(source, offset2 + 4, offset2 + 6)),
                          BitAnd(U32(Shl(busy_byte, 12)), 196608))
        start_sector == BitOr(At(source, offset2 + 7),
                              BitAnd(U32(Shl(busy_byte, 8)), 768))
        data_start == U32(start_sector * 256)
        data_end == U32(data_start + file_len)
        file == File_new(name.val, dir.val, load_addr, exec_addr, locked,
                         Slice(source, data_start, data_end))
    IN  IF ~dir.ok THEN Err(InvalidDiscData(offset1 + 7))
        ELSE IF ~name.ok THEN Err(InvalidDiscData(offset1 + name.err.position))
        ELSE IF data_start < 512 THEN Err(InvalidDiscData(offset2 + 7))
        ELSE IF data_end > U32(Len(source)) THEN Err(InvalidDiscData(offset2 + 6))
        ELSE IF HashSet_contains(files, file)
             THEN Err(DuplicateFileName(DisplayDirName(dir.val, name.val)))
        ELSE Ok(HashSet_insert(files, file))

\* one round of the loop of populate_files: entry i on top of the set `files`
PopulateEntry(source, i, files) ==
    LET offset1 == U8(i * 8) + 8
        offset2 == U8(i * 8) + 264
        raw == At(source, offset1 + 7)
        dir == AsciiPrintingChar_from_u8(BitAnd(raw, 127))
        locked == raw > 127
        name_buf == Slice(source, offset1, offset1 + 7)
        name_len == TakeWhileAbove(name_buf, 32)
        name == AsciiName_try_from(7, SubSeq(name_buf, 1, name_len))
        busy_byte == At(source, offset2 + 6)
        load_addr == BitOr(u16_from_le(Slice(source, offset2, offset2 + 2)),
                           BitAnd(U32(Shl(busy_byte, 14)), 196608))
        exec_addr == BitOr(u16_from_le(Slice(source, offset2 + 2, offset2 + 4)),
                           BitAnd(U32(Shl(busy_byte, 10)), 196608))
        file_len == BitOr(u16_from_le(Slice(source, offset2 + 4, offset2 + 6)),
                          BitAnd(U32(Shl(busy_byte, 12)), 196608))
        start_sector == BitOr(At(source, offset2 + 7),
                              BitAnd(U32(Shl(busy_byte, 8)), 768))
        data_start == U32(start_sector * 256)
        data_end == U32(data_start + file_len)
        file == File_new(name.val, dir.val, load_addr, exec_addr, locked,
                         Slice(source, data_start, data_end))
    IN  IF ~dir.ok THEN Err(InvalidDiscData(offset1 + 7))
        ELSE IF ~name.ok THEN Err(InvalidDiscData(offset1 + name.err.position))
        ELSE IF data_start < 512 THEN Err(InvalidDiscData(offset2 + 7))
        ELSE IF data_end > U32(Len(source)) THEN Err(InvalidDiscData(offset2 + 6))
        ELSE IF HashSet_contains(files, file)
             THEN Err(DuplicateFileName(DisplayDirName(dir.val, name.val)))
        ELSE Ok(HashSet_insert(files, file))

\* the loop of populate_files from entry i on
RECURSIVE PopulateFrom(_, _, _, _)
PopulateFrom(source, i, n, files) ==
    IF i >= n THEN Ok(files)
    ELSE LET r == PopulateEntry(source, i, files)
         IN  IF r.ok THEN PopulateFrom(source, i + 1, n, r.val) ELSE r

\* populate_files reading one entry past the count
populate_files_one_more(source) ==
    LET raw == At(source, 261)
    IN  IF BitAnd(raw, 7) # 0 THEN Err(InvalidDiscData(261))
        ELSE PopulateFrom(source, 0, Shr(raw, 3) + 1, {})

\* fn populate_files
populate_files(source) ==
    LET raw == At(source, 261)
    IN  IF BitAnd(raw, 7) # 0 THEN Err(InvalidDiscData(261))
        ELSE PopulateFrom(source, 0, Shr(raw, 3), {})

\* the size error reporting one sector instead of two
TooSmallError_one_sector == InputTooSmall(SECTOR_SIZE)

\* the error of the size check of from_bytes
TooSmallError == InputTooSmall(SECTOR_SIZE * 2)

\* Disc::from_bytes
from_bytes(source) ==
    LET hs == as_min_slice(source, HeaderSectorsLen)
        header_sectors == hs.val
        disc_name == DecodeDiscName(header_sectors)
        sector_count == DecodeSectorCount(header_sectors)
        boot_option == BootOption_try_from(BitAnd(Shr(At(header_sectors, 262), 4), 3))
        disc_cycle == BCD_from_hex(At(header_sectors, 260))
        files == populate_files(source)
    IN  IF ~hs.ok THEN Err(TooSmallError)
        ELSE IF ~disc_name.ok THEN disc_name
        ELSE IF ~sector_count.ok THEN sector_count
        ELSE IF ~boot_option.ok THEN boot_option
        ELSE IF ~disc_cycle.ok THEN Err(InvalidDiscData(260))
        ELSE IF ~files.ok THEN files
        ELSE Ok([name |-> disc_name.val, boot_option |-> boot_option.val,
                 cycle |-> disc_cycle.val, files |-> files.val])

-----------------------------------------------------------------------------
(* dfs::disc: the entry mutation API.                                       *)

\* add_file with the capacity test written `>` instead of `>=`
add_file_off_by_one(d, file) ==
    IF Cardinality(d.files) > MAX_FILES
    THEN {[ret |-> Err(file), files |-> d.files]}
    ELSE IF HashSet_contains(d.files, file)
         THEN {[ret |-> Ok(Some(old)), files |-> (d.files \ {old}) \cup {file}] :
                  old \in HashSet_matches(d.files, file)}
         ELSE {[ret |-> Ok(None), files |-> d.files \cup {file}]}

\* Disc::add_file: the possible outcomes [ret, files]
add_file(d, file) ==
    IF Cardinality(d.files) >= MAX_FILES
    THEN {[ret |-> Err(file), files |-> d.files]}
    ELSE IF HashSet_contains(d.files, file)
         THEN {[ret |-> Ok(Some(old)), files |-> (d.files \ {old}) \cup {file}] :
                  old \in HashSet_matches(d.files, file)}
         ELSE {[ret |-> Ok(None), files |-> d.files \cup {file}]}

\* Disc::find_file: the possible outcomes (the set's probe order decides among
\* several elements with the key)
find_file(d, file_name, dir_name) ==
    LET found == HashSet_keyed(d.files, Key_new(file_name, dir_name))
    IN  IF found = {} THEN {None} ELSE {Some(f) : f \in found}

\* Disc::remove_file: the possible outcomes [ret, files]
remove_file(d, file_name, dir_name) ==
    LET found == HashSet_keyed(d.files, Key_new(file_name, dir_name))
    IN  IF found = {} THEN {[ret |-> None, files |-> d.files]}
        ELSE {[ret |-> Some(f), files |-> d.files \ {f}] : f \in found}

\* Disc::increment_cycle
increment_cycle(d) ==
    LET next_cycle == U8(BCD_into_u8(d.cycle) + 1)
        r == BCD_try_new(next_cycle)
    IN  [d EXCEPT !.cycle = IF r.ok THEN r.val ELSE BCD_C00]

-----------------------------------------------------------------------------
(* dfs::disc: encoding.                                                     *)

\* the files left in the order the set iterates them: every order
RECURSIVE SortedByKey_any_order(_)
SortedByKey_any_order(files) ==
    IF files = {} THEN {<<>>}
    ELSE UNION {{<<f>> \o t : t \in SortedByKey_any_order(files \ {f})} : f \in files}

\* sort_unstable_by_key on the files' keys: the orders the sort may leave
\* (one when the keys are unique)
RECURSIVE SortedByKey(_)
SortedByKey(files) ==
    IF files = {} THEN {<<>>}
    ELSE LET mins == {f \in files : \A g \in files : ~Key_less(g.name, f.name)}
         IN  UNION {{<<f>> \o t : t \in SortedByKey(files \ {f})} : f \in mins}

\* the loop advancing by the whole sectors of a content only
RECURSIVE AssignSectors_floor(_, _, _, _)
AssignSectors_floor(v, k, start_sector, starts) ==
    IF k > Len(v) THEN Ok([starts |-> starts, end_sector |-> start_sector])
    ELSE LET next == start_sector + (Len(v[k].content) \div 256)
         IN  IF next > 65535 \/ next = 0 THEN Err(InputTooLarge(65536))
             ELSE AssignSectors_floor(v, k + 1, next, Append(starts, start_sector))

\* the loop with a running total of 8 bits
RECURSIVE AssignSectors_u8(_, _, _, _)
AssignSectors_u8(v, k, start_sector, starts) ==
    IF k > Len(v) THEN Ok([starts |-> starts, end_sector |-> start_sector])
    ELSE LET next == start_sector + sectors(Len(v[k].content))
         IN  IF next > 255 \/ next = 0 THEN Err(InputTooLarge(65536))
             ELSE AssignSectors_u8(v, k + 1, next, Append(starts, start_sector))

\* the loop assigning start sectors: the start sector of each file of v from
\* index k on, and the end sector; an error when the u16 sum overflows
RECURSIVE AssignSectors(_, _, _, _)
AssignSectors(v, k, start_sector, starts) ==
    IF k > Len(v) THEN Ok([starts |-> starts, end_sector |-> start_sector])
    ELSE LET next == start_sector + sectors(Len(v[k].content))
         IN  IF next > 65535 \/ next = 0 THEN Err(InputTooLarge(65536))
             ELSE AssignSectors(v, k + 1, next, Append(starts, start_sector))

buf_for_entry(idx) == [from |-> (idx + 1) * 8, to |-> (idx + 2) * 8]

\* the 8 bytes of a file in sector 0
NameEntry(file) ==
    copy_space_padded(7, file.name.name) \o <<file.name.dir>>

\* the entry with the high bits of exec and length in each other's place
AddressEntry_exec_len_swapped(file, start_sector) ==
    LET load == to_le_bytes(file.load_addr, 4)
        exec == to_le_bytes(file.exec_addr, 4)
        len == to_le_bytes(U32(Len(file.content)), 4)
        start == to_le_bytes(start_sector, 2)
    IN  << load[1], load[2], exec[1], exec[2], len[1], len[2],
           BitOr(BitOr(U8(Shl(BitAnd(len[3], 3), 6)), U8(Shl(BitAnd(exec[3], 3), 4))),
                 BitOr(U8(Shl(BitAnd(load[3], 3), 2)), U8(Shl(BitAnd(start[2], 3), 0)))),
           start[1] >>

\* the 8 bytes of a file in sector 1
AddressEntry(file, start_sector) ==
    LET load == to_le_bytes(file.load_addr, 4)
        exec == to_le_bytes(file.exec_addr, 4)
        len == to_le_bytes(U32(Len(file.content)), 4)
        start == to_le_bytes(start_sector, 2)
    IN  << load[1], load[2], exec[1], exec[2], len[1], len[2],
           BitOr(BitOr(U8(Shl(BitAnd(exec[3], 3), 6)), U8(Shl(BitAnd(len[3], 3), 4))),
                 BitOr(U8(Shl(BitAnd(load[3], 3), 2)), U8(Shl(BitAnd(start[2], 3), 0)))),
           start[1] >>

\* a 256-byte buffer holding `head` in its first 8 bytes and entries[i] at
\* buf_for_entry(i), zero elsewhere
SectorBuf(head, entries) ==
    [k \in 1..256 |->
        LET off == k - 1
            idx == (off \div 8) - 1
        IN  IF off < 8 THEN head[off + 1]
            ELSE IF idx < Len(entries) THEN entries[idx + 1][(off % 8) + 1]
            ELSE 0]

\* the value of `sectors` after n calls of write_buf
SectorsWritten(n) == U16(2 + n)

Sector0(d, v) ==
    SectorBuf(copy_space_padded(8, up_to(d.name, 8)),
              [i \in 1..Len(v) |-> NameEntry(v[i])])

Sector1(d, v, starts, end_sector) ==
    SectorBuf(copy_space_padded(4, from_up_to(d.name, 8, 12))
                \o << BCD_into_u8(d.cycle),
                      U8(Cardinality(d.files) * 8),
                      BitOr(U8(Shl(d.boot_option, 4)),
                            U8(Shr(BitAnd(SectorsWritten(1), 768), 8))),
                      BitAnd(end_sector, 255) >>,
              [i \in 1..Len(v) |-> AddressEntry(v[i], starts[i])])

\* a content followed by a whole zeroed buffer when it ends on a boundary
PaddedContent_always(content) ==
    LET n == BitAnd(Len(content), 255)
    IN  content \o [i \in 1..(256 - n) |-> 0]

\* a file's content followed by the rest of the zeroed buffer
PaddedContent(content) ==
    LET n == BitAnd(Len(content), 255)
    IN  IF n = 0 THEN content ELSE content \o [i \in 1..(256 - n) |-> 0]

RECURSIVE Contents(_, _)
Contents(v, k) ==
    IF k > Len(v) THEN <<>> ELSE PaddedContent(v[k].content) \o Contents(v, k + 1)

\* to_image rejecting an end sector of MAX_SECTORS too
ToImageOrdered_limit_inclusive(d, v) ==
    LET a == AssignSectors(v, 1, 2, <<>>)
    IN  IF ~a.ok THEN [ret |-> a, written |-> <<>>]
        ELSE IF a.val.end_sector >= MAX_SECTORS
             THEN [ret |-> Err(InputTooLarge(a.val.end_sector)), written |-> <<>>]
        ELSE [ret |-> Ok(a.val.end_sector),
              written |-> Sector0(d, v) \o Sector1(d, v, a.val.starts, a.val.end_sector)
                            \o Contents(v, 1)]

\* to_image once the files are in the order v
ToImageOrdered(d, v) ==
    LET a == AssignSectors(v, 1, 2, <<>>)
    IN  IF ~a.ok THEN [ret |-> a, written |-> <<>>]
        ELSE IF a.val.end_sector > MAX_SECTORS
             THEN [ret |-> Err(InputTooLarge(a.val.end_sector)), written |-> <<>>]
        ELSE [ret |-> Ok(a.val.end_sector),
              written |-> Sector0(d, v) \o Sector1(d, v, a.val.starts, a.val.end_sector)
                            \o Contents(v, 1)]

\* Disc::to_image: the possible outcomes [ret, written]
to_image(d) ==
    LET too_long == {f \in d.files : Len(f.content) > 262143}
    IN  IF too_long # {}
        THEN {[ret |-> Err(InputTooLarge(Len(f.content))), written |-> <<>>] :
                 f \in too_long}
        ELSE {ToImageOrdered(d, v) : v \in SortedByKey(d.files)}

-----------------------------------------------------------------------------
(* Inputs.                                                                  *)

\* load and exec addresses of the files a caller builds range over 0..MaxAddr
MaxAddr == 1

Zeroes(n) == [i \in 1..n |-> 0]

\* buf with `bytes` written at offset off (as far as buf reaches)
Poke(buf, off, bytes) ==
    [i \in 1..Len(buf) |->
        IF i > off /\ i <= off + Len(bytes) THEN bytes[i - off] ELSE buf[i]]

\* the test helper disc_buf_with_name: a two-sector image holding the name
disc_buf_with_name(name) ==
    Poke(Poke(Poke(Zeroes(SECTOR_SIZE * 2), 0, SubSeq(name, 1, 8)),
              256, SubSeq(name, 9, Len(name))),
         263, <<2>>)

\* "DiscName"
DiscNameBytes == <<68, 105, 115, 99, 78, 97, 109, 101>>

\* the two header sectors of an image: the 12 name bytes, the bytes at
\* 0x104..0x107, and for each entry its 8 bytes in sector 0 and in sector 1
HeaderImage(name12, b104, b105, b106, b107, names, addrs) ==
    SectorBuf(SubSeq(name12, 1, 8), names)
      \o SectorBuf(SubSeq(name12, 9, 12) \o <<b104, b105, b106, b107>>, addrs)

\* the 8 bytes of sector 0 that decode to the file's key and locked flag
RawNameEntry(file) ==
    copy_space_padded(7, file.name.name)
      \o <<file.name.dir + (IF file.is_locked THEN 128 ELSE 0)>>

\* the n-th filler file: $.A, $.B, ... with no content
Filler(i) == File_new(<<65 + i>>, 36, 0, 0, FALSE, <<>>)

\* a two-sector image whose catalogue holds the first n filler files
CatalogImage(n) ==
    HeaderImage(copy_space_padded(12, DiscNameBytes), 0, U8(n * 8), 0, 2,
                [i \in 1..n |-> RawNameEntry(Filler(i - 1))],
                [i \in 1..n |-> AddressEntry(Filler(i - 1), 2)])

\* the images a caller of the mutation API starts from
SpecImages == {CatalogImage(n) : n \in {MAX_FILES - 2, MAX_FILES - 1, MAX_FILES}}

\* the files a caller adds: $.a in every combination of one field changed,
\* $.b, and the first filler's key with another load address
InputFiles ==
    {File_new(<<97>>, 36, l, 0, FALSE, <<>>) : l \in 0..MaxAddr}
    \cup {File_new(<<97>>, 36, 0, e, FALSE, <<>>) : e \in 0..MaxAddr}
    \cup {File_new(<<97>>, 36, 0, 0, TRUE, <<>>), File_new(<<97>>, 36, 0, 0, FALSE, <<1>>)}
    \cup {File_new(<<98>>, 36, 0, 0, FALSE, <<>>)}
    \cup {File_new(<<65>>, 36, MaxAddr, 0, FALSE, <<>>)}

InputKeys == {f.name : f \in InputFiles}

-----------------------------------------------------------------------------
(* The mutation API as a state machine: a caller makes a Disc (new or       *)
(* decoded) and then calls add_file, find_file and remove_file on it.       *)

Init ==
    /\ src = <<>>
    /\ disc = NoDisc
    /\ ret = None
    /\ target = <<>>
    /\ pc = [op |-> "init"]

New ==
    /\ pc.op = "init"
    /\ disc' = Disc_new
    /\ ret' = None
    /\ pc' = [op |-> "new"]
    /\ UNCHANGED <<src, target>>

FromBytes(image) ==
    /\ pc.op = "init"
    /\ src' = image
    /\ ret' = from_bytes(image)
    /\ disc' = IF ret'.ok THEN ret'.val ELSE NoDisc
    /\ pc' = [op |-> "from_bytes"]
    /\ UNCHANGED target

AddFile(file) ==
    /\ disc # NoDisc
    /\ \E o \in add_file(disc, file) :
          /\ disc' = [disc EXCEPT !.files = o.files]
          /\ ret' = o.ret
    /\ pc' = [op |-> "add_file", arg |-> file]
    /\ UNCHANGED <<src, target>>

FindFile(key) ==
    /\ disc # NoDisc
    /\ ret' \in find_file(disc, key.name, key.dir)
    /\ pc' = [op |-> "find_file", arg |-> key]
    /\ UNCHANGED <<src, disc, target>>

RemoveFile(key) ==
    /\ disc # NoDisc
    /\ \E o \in remove_file(disc, key.name, key.dir) :
          /\ disc' = [disc EXCEPT !.files = o.files]
          /\ ret' = o.ret
    /\ pc' = [op |-> "remove_file", arg |-> key]
    /\ UNCHANGED <<src, target>>

Next ==
    \/ New
    \/ \E image \in SpecImages : FromBytes(image)
    \/ \E file \in InputFiles : AddFile(file)
    \/ \E key \in InputKeys : FindFile(key)
    \/ \E key \in InputKeys : RemoveFile(key)

Spec == Init /\ [][Next]_vars

-----------------------------------------------------------------------------
(* File identity as a pure function: the caller compares and hashes two     *)
(* File values built with File::new.                                        *)

FileUniverse ==
    {File_new(name, dir, l, e, locked, content) :
        name \in {<<97>>, <<97, 98>>}, dir \in {36, 65}, l \in 0..MaxAddr,
        e \in 0..MaxAddr, locked \in BOOLEAN, content \in {<<>>, <<1>>}}

CompareFiles(a, b) ==
    /\ pc.op = "init"
    /\ pc' = [op |-> "eq", arg |-> <<a, b>>]
    /\ ret' = [eq |-> File_eq(a, b), hash_eq |-> File_hash(a) = File_hash(b)]
    /\ UNCHANGED <<src, disc, target>>

NextFile == \E a \in FileUniverse, b \in FileUniverse : CompareFiles(a, b)

SpecFile == Init /\ [][NextFile]_vars

-----------------------------------------------------------------------------
(* Claims about the mutation API and File identity.                         *)

SameKey(a, b) == a.name.name = b.name.name /\ a.name.dir = b.name.dir

\* C3: in every Disc reachable from Disc::new() or a successful from_bytes
\* through add_file and remove_file, no two files of the set share the same
\* (directory, name) key.
C3_KeyUniqueness ==
    disc # NoDisc => \A f \in disc.files : \A g \in disc.files : SameKey(f, g) => f = g

\* C4: add_file on a Disc holding fewer than 31 files and already a file with
\* the new file's key returns Ok(Some(previous file)), whatever the other
\* fields of the two files are; the number of files is unchanged and find_file
\* for the key then returns the new file.
C4_AddFileReplaces ==
    [][(/\ pc'.op = "add_file"
        /\ Cardinality(disc.files) < 31
        /\ \E g \in disc.files : SameKey(g, pc'.arg))
       => (/\ ret'.ok
           /\ ret'.val.some
           /\ ret'.val.val \in disc.files
           /\ SameKey(ret'.val.val, pc'.arg)
           /\ Cardinality(disc'.files) = Cardinality(disc.files)
           /\ find_file(disc', pc'.arg.name.name, pc'.arg.name.dir) = {Some(pc'.arg)})]_vars

\* C5: two File values with the same (name, directory) key compare equal and
\* hash equally even when load address, exec address, locked flag or content
\* differ; two Files with different keys compare unequal.
C5_FileIdentity ==
    pc.op = "eq" =>
        LET a == pc.arg[1]
            b == pc.arg[2]
        IN  IF SameKey(a, b) THEN ret.eq /\ ret.hash_eq ELSE ~ret.eq

\* C6: the file set never holds more than 31 files; add_file on a Disc holding
\* 31 files returns Err carrying the rejected file and leaves the set
\* unchanged; add_file of a file with a new key on a Disc holding 30 files
\* succeeds and the Disc then holds 31.
C6_CapacityBoundary ==
    /\ [](disc # NoDisc => Cardinality(disc.files) <= 31)
    /\ [][pc'.op = "add_file" =>
            /\ Cardinality(disc.files) = 31 =>
                  ret' = Err(pc'.arg) /\ disc'.files = disc.files
            /\ (/\ Cardinality(disc.files) = 30
                /\ \A g \in disc.files : ~SameKey(g, pc'.arg)) =>
                  ret'.ok /\ Cardinality(disc'.files) = 31 /\ pc'.arg \in disc'.files]_vars

\* a full Disc has just rejected a file
C6_Witness ==
    /\ pc.op = "add_file"
    /\ ~ret.ok
    /\ ret.err = pc.arg
    /\ Cardinality(disc.files) = 31

-----------------------------------------------------------------------------
(* Decoding as a pure function: the caller hands one buffer to from_bytes.  *)

\* "DiscNameABCD": a disc name filling all 12 bytes
FullName == DiscNameBytes \o <<65, 66, 67, 68>>

NameOffsets == (0..7) \cup (256..259)

\* the bytes tried in the disc name: control, space, the ends of the printing
\* range, DEL and bytes with the high bit set
NameBytes == {0, 32, 126, 127, 128, 255}

\* the image of the test disc_name, with a name of 12 bytes
FullNameImage == disc_buf_with_name(FullName)

\* a two-sector image whose disc name has up to two bytes overwritten
NameImage(o1, v1, o2, v2) ==
    Poke(Poke(FullNameImage, o1, <<v1>>), o2, <<v2>>)

\* a sector of data bytes
DataSector(b) == [i \in 1..SECTOR_SIZE |-> b]

\* a four-sector image with two catalogue entries: file f0 at start sector s0
\* and file f1 at start sector s1, where len0 and len1 are the lengths the
\* catalogue declares; sector 2 holds bytes 0x31 and sector 3 bytes 0x32
TwoEntryImage(f0, s0, len0, f1, s1, len1) ==
    HeaderImage(copy_space_padded(12, DiscNameBytes), 17, 16, 0, 4,
                <<RawNameEntry(f0), RawNameEntry(f1)>>,
                <<AddressEntry([f0 EXCEPT !.content = Zeroes(len0)], s0),
                  AddressEntry([f1 EXCEPT !.content = Zeroes(len1)], s1)>>)
      \o DataSector(49) \o DataSector(50)

\* "Same" and "Sam"
EntryNames == {<<83, 97, 109, 101>>, <<83, 97, 109>>}

\* an image with two entries: the first is $.Same, unlocked, load and exec 0,
\* one byte at sector 2; the second is as given
SecondEntryImage(name, l, e, locked, s, len) ==
    TwoEntryImage(File_new(<<83, 97, 109, 101>>, 36, 0, 0, FALSE, <<>>), 2, 1,
                  File_new(name, 36, l, e, locked, <<>>), s, len)

\* the buffers that are cut below two sectors
ShortBases ==
    {Zeroes(SECTOR_SIZE * 2), DataSector(255) \o DataSector(255),
     FullNameImage, CatalogImage(1)}

ShortLens == {0, 1, SECTOR_SIZE, SECTOR_SIZE * 2 - 1}

NextDecode ==
    \/ \E o1 \in NameOffsets, v1 \in NameBytes :
          \E o2 \in {o \in NameOffsets : o >= o1}, v2 \in NameBytes :
             FromBytes(NameImage(o1, v1, o2, v2))
    \/ \E name \in EntryNames, l \in 0..MaxAddr, e \in 0..MaxAddr, locked \in BOOLEAN,
          s \in {2, 3}, len \in 0..2 :
          FromBytes(SecondEntryImage(name, l, e, locked, s, len))
    \/ \E image \in ShortBases, n \in ShortLens : FromBytes(SubSeq(image, 1, n))

SpecDecode == Init /\ [][NextDecode]_vars


-----------------------------------------------------------------------------
(* Claims about decoding.                                                   *)

IsErr(r, tag, arg) == ~r.ok /\ r.err.tag = tag /\ r.err.arg = arg

Decoded == pc.op = "from_bytes"

\* the 12 disc-name bytes of an image, by index 0..11
NameByte(s, j) == IF j < 8 THEN At(s, j) ELSE At(s, 256 + (j - 8))

\* the image offset of the disc-name byte with index j
NameOffset(j) == IF j < 8 THEN j ELSE 256 + (j - 8)

\* the index of the first disc-name byte outside 0x21..0x7E, 12 when all are in
FirstNameEnd(s) ==
    LET ends == {j \in 0..11 : NameByte(s, j) < 33 \/ NameByte(s, j) > 126}
    IN  IF ends = {} THEN 12 ELSE CHOOSE j \in ends : \A k \in ends : j <= k

\* the index of the first disc-name byte <= 0x20, 12 when there is none
FirstNameTerminator(s) ==
    LET ends == {j \in 0..11 : NameByte(s, j) <= 32}
    IN  IF ends = {} THEN 12 ELSE CHOOSE j \in ends : \A k \in ends : j <= k

\* the (directory, name) key the bytes of catalogue entry i spell
RawKey(s, i) ==
    LET ends == {j \in 0..6 : At(s, 8 + 8 * i + j) <= 32}
        n == IF ends = {} THEN 7 ELSE CHOOSE j \in ends : \A k \in ends : j <= k
    IN  [name |-> [j \in 1..n |-> At(s, 8 + 8 * i + j - 1)],
         dir |-> At(s, 8 + 8 * i + 7) % 128]

\* the image has no defect in its header, and each of its entries decodes when
\* it is taken alone
DecodesButForDuplicates(s) ==
    /\ Len(s) >= 512
    /\ DecodeDiscName(s).ok
    /\ DecodeSectorCount(s).ok
    /\ BCD_from_hex(At(s, 260)).ok
    /\ At(s, 261) % 8 = 0
    /\ \A i \in 0..((At(s, 261) \div 8) - 1) : PopulateEntry(s, i, {}).ok

\* C2: if two catalogue entries with index below the entry count carry the
\* same (directory, name) key, from_bytes fails with DuplicateFileName, also
\* when they differ in load address, exec address, locked flag or content.
C2_DuplicateRejected ==
    (/\ Decoded
     /\ DecodesButForDuplicates(src)
     /\ \E i \in 0..30 : \E j \in 0..30 :
           /\ i < j
           /\ j < At(src, 261) \div 8
           /\ RawKey(src, i) = RawKey(src, j))
    => (~ret.ok /\ ret.err.tag = "DuplicateFileName")

\* C7: from_bytes on a buffer shorter than 512 bytes fails with
\* InputTooSmall(512) whatever the buffer holds; a buffer of 512 bytes or more
\* never fails with InputTooSmall.
C7_SizeCheck ==
    Decoded =>
        IF Len(src) < 512 THEN IsErr(ret, "InputTooSmall", 512)
        ELSE ret.ok \/ ret.err.tag # "InputTooSmall"

\* a buffer of 511 bytes that holds a disc name has been rejected
C7_Witness ==
    /\ Decoded
    /\ Len(src) = 511
    /\ At(src, 0) = 68
    /\ IsErr(ret, "InputTooSmall", 512)

\* C8: when the first disc-name byte outside 0x21..0x7E is a byte >= 0x7F,
\* from_bytes fails with InvalidDiscData(p) where p is the offset of that byte
\* in the image: 0..7 in sector 0, 0x100 + k in sector 1.
C8_NameErrorIsImageOffset ==
    (Decoded /\ Len(src) >= 512) =>
        LET j == FirstNameEnd(src)
        IN  (j < 12 /\ NameByte(src, j) >= 127) =>
                IsErr(ret, "InvalidDiscData", NameOffset(j))

\* the first bad name byte is in sector 1 and the error names its image offset
C8_Witness ==
    /\ Decoded
    /\ Len(src) >= 512
    /\ FirstNameEnd(src) = 11
    /\ At(src, 259) = 127
    /\ IsErr(ret, "InvalidDiscData", 259)

\* C9 as stated: a disc-name byte with the high bit set at offset 0x100 + k,
\* all earlier name bytes being valid, makes from_bytes fail with
\* InvalidDiscData(8 + k), the position in the 12-byte name buffer.
C9_NameErrorIsBufferIndex ==
    (Decoded /\ Len(src) >= 512) =>
        \A k \in 0..3 :
            (At(src, 256 + k) >= 128 /\ FirstNameEnd(src) = 8 + k) =>
                IsErr(ret, "InvalidDiscData", 8 + k)

\* C9 as amended: a disc-name byte with the high bit set at offset 0x100 + k,
\* all earlier name bytes being valid, makes from_bytes fail with
\* InvalidDiscData(0x100 + k), the offset of the byte in the image.
C9_NameErrorInSector1 ==
    (Decoded /\ Len(src) >= 512) =>
        \A k \in 0..3 :
            (At(src, 256 + k) >= 128 /\ FirstNameEnd(src) = 8 + k) =>
                IsErr(ret, "InvalidDiscData", 256 + k)

\* the case of the test disc_name_top_bits_set: "DiscNameAB\xffD"
C9_Witness ==
    /\ Decoded
    /\ Len(src) >= 512
    /\ At(src, 258) = 255
    /\ FirstNameEnd(src) = 10
    /\ IsErr(ret, "InvalidDiscData", 258)

\* C10: the decoded disc name is the longest prefix of the 12 name bytes whose
\* bytes are all > 0x20; the bytes after a space or control byte are ignored,
\* so they cause no error whatever they are.
C10_NameIsPrefix ==
    (Decoded /\ Len(src) >= 512) =>
        LET n == FirstNameTerminator(src)
        IN  /\ ret.ok => ret.val.name = [j \in 1..n |-> NameByte(src, j - 1)]
            /\ (\A j \in 0..(n - 1) : NameByte(src, j) <= 126) =>
                  \/ ret.ok
                  \/ ret.err.tag # "InvalidDiscData"
                  \/ ret.err.arg \notin NameOffsets

\* a name ended by a space that is followed by 0xFF has decoded
C10_Witness ==
    /\ Decoded
    /\ FirstNameTerminator(src) = 8
    /\ At(src, 256) = 32
    /\ At(src, 257) = 255
    /\ ret.ok
    /\ ret.val.name = DiscNameBytes


-----------------------------------------------------------------------------
(* The codec as a state machine: a caller holds a Disc it has built, writes *)
(* it with to_image and decodes the bytes written with from_bytes.          *)

\* disc names: none, "Disc", "DiscName", "DiscNameABCD" and "My Disc"
CodecNames ==
    {<<>>, SubSeq(DiscNameBytes, 1, 4), DiscNameBytes, FullName,
     <<77, 121, 32, 68, 105, 115, 99>>}

\* cycles: the BCD bytes 0x00, 0x09, 0x10 and 0x99
CodecCycles == {0, 9, 16, 153}

\* the files of the test from_bytes_files_success ($.Small, A.Single,
\* B.Double), the last one locked and with 18-bit addresses, and an empty $.a
CodecFiles ==
    {File_new(<<83, 109, 97, 108, 108>>, 36, 4660, 22136, FALSE, [i \in 1..12 |-> 49]),
     File_new(<<83, 105, 110, 103, 108, 101>>, 65, 34661, 17185, FALSE, DataSector(50)),
     File_new(<<68, 111, 117, 98, 108, 101>>, 66, 262143, 196608 + MaxAddr, TRUE,
              DataSector(51) \o <<51>>),
     File_new(<<97>>, 36, 0, MaxAddr, FALSE, <<>>)}

InitCodec ==
    /\ src = <<>>
    /\ \E name \in CodecNames, boot_option \in 0..3, cycle \in CodecCycles,
          files \in SUBSET CodecFiles :
          disc = [name |-> name, boot_option |-> boot_option, cycle |-> cycle,
                  files |-> files]
    /\ ret = None
    /\ target = <<>>
    /\ pc = [op |-> "init"]

ToImage ==
    /\ pc.op = "init"
    /\ disc # NoDisc
    /\ \E o \in to_image(disc) :
          /\ ret' = o.ret
          /\ target' = target \o o.written
    /\ pc' = [op |-> "to_image"]
    /\ UNCHANGED <<src, disc>>

\* from_bytes on the bytes written; the caller keeps its Disc beside the
\* decoded one, which is ret.val
DecodeWritten ==
    /\ pc.op = "to_image"
    /\ ret.ok
    /\ src' = target
    /\ ret' = from_bytes(target)
    /\ pc' = [op |-> "from_bytes"]
    /\ UNCHANGED <<disc, target>>

NextCodec == ToImage \/ DecodeWritten

SpecCodec == InitCodec /\ [][NextCodec]_vars

RECURSIVE SumSectors(_)
SumSectors(files) ==
    IF files = {} THEN 0
    ELSE LET f == CHOOSE f \in files : TRUE
         IN  ((Len(f.content) + 255) \div 256) + SumSectors(files \ {f})

\* C1: for every Disc with at most 31 files of unique keys, every content
\* length <= 0x3FFFF and an end sector <= 800, from_bytes on the bytes written
\* by to_image succeeds and yields a Disc with the same name, boot option,
\* cycle and the same files (key, load, exec, locked flag, content).
C1_RoundTrip ==
    (/\ pc.op = "from_bytes"
     /\ Cardinality(disc.files) <= 31
     /\ \A f \in disc.files : \A g \in disc.files : SameKey(f, g) => f = g
     /\ \A f \in disc.files : Len(f.content) <= 262143
     /\ 2 + SumSectors(disc.files) <= 800)
    => (/\ ret.ok
        /\ ret.val.name = disc.name
        /\ ret.val.boot_option = disc.boot_option
        /\ ret.val.cycle = disc.cycle
        /\ ret.val.files = disc.files)

-----------------------------------------------------------------------------
(* Decoding the catalogue header: the caller hands from_bytes images whose  *)
(* bytes at 0x104..0x107 and whose catalogue slots vary.                    *)

\* the disc names of the header images: "DiscName" and "\xffiscName"
HeaderNames == {DiscNameBytes, <<255>> \o Tail(DiscNameBytes)}

\* the bytes tried at 0x106: every value of the two low bits, with and without
\* boot option bits and the unused high bits
SectorCountHighs == {0, 1, 2, 3, 4, 19, 48, 252, 255}

\* the bytes tried at 0x107
SectorCountLows == {0, 1, 2, 3, 255}

\* an image without catalogue entries, of two sectors followed by `extra`
CountImage(name, b104, b105, b106, b107, extra) ==
    HeaderImage(copy_space_padded(12, name), b104, b105, b106, b107, <<>>, <<>>)
      \o extra

\* what a catalogue slot holds: the filler file of its index with one byte of
\* content, the bytes of slot 0 again, or sixteen bytes 0xFF
SlotKinds == {"good", "dup", "junk"}

Junk == [j \in 1..8 |-> 255]

SlotFile(k, kind) ==
    [Filler(IF kind = "dup" THEN 0 ELSE k) EXCEPT !.content = <<49>>]

SlotName(k, kind) ==
    IF kind = "junk" THEN Junk ELSE RawNameEntry(SlotFile(k, kind))

SlotAddr(k, kind) ==
    IF kind = "junk" THEN Junk ELSE AddressEntry(SlotFile(k, kind), 2)

\* a three-sector image with three catalogue slots filled and the entry count
\* byte b105
SlotImage(b105, kinds) ==
    HeaderImage(copy_space_padded(12, DiscNameBytes), 17, b105, 0, 3,
                [k \in 1..3 |-> SlotName(k - 1, kinds[k])],
                [k \in 1..3 |-> SlotAddr(k - 1, kinds[k])])
      \o DataSector(49)

\* the bytes tried at 0x105: counts 0 to 4, and low bits set
EntryCountBytes == {0, 8, 16, 24, 32, 1, 7, 9, 20}

NextHeader ==
    \/ \E name \in HeaderNames, b104 \in {17, 26}, b105 \in {0, 1},
          b106 \in SectorCountHighs, b107 \in SectorCountLows,
          extra \in {<<>>, DataSector(49)} :
          FromBytes(CountImage(name, b104, b105, b106, b107, extra))
    \/ \E b105 \in EntryCountBytes, k0 \in SlotKinds, k1 \in SlotKinds, k2 \in SlotKinds :
          FromBytes(SlotImage(b105, <<k0, k1, k2>>))

SpecHeader == Init /\ [][NextHeader]_vars

\* the disc name of the image is valid: no byte above 0x7E before its end
ValidDiscName(s) == FirstNameEnd(s) = FirstNameTerminator(s)

\* the 10-bit sector count the image declares
DeclaredSectors(s) == At(s, 263) + 256 * (At(s, 262) % 4)

\* C11: for every image of at least 512 bytes with a valid disc name, a 10-bit
\* sector count (low 8 bits src[0x107], high 2 bits the low 2 bits of
\* src[0x106]) of 0 or 1 makes from_bytes fail with InvalidDiscData(0x107); a
\* count of 2 or more never does, also when it exceeds the length of the image.
C11_SectorCountCheck ==
    (Decoded /\ Len(src) >= 512 /\ ValidDiscName(src)) =>
        IF DeclaredSectors(src) < 2 THEN IsErr(ret, "InvalidDiscData", 263)
        ELSE /\ ~IsErr(ret, "InvalidDiscData", 263)
             /\ (At(src, 260) = 17 /\ At(src, 261) = 0) => ret.ok

\* a count byte of 1 under a byte at 0x106 whose low two bits are clear has
\* been rejected
C11_Witness ==
    /\ Decoded
    /\ ValidDiscName(src)
    /\ At(src, 263) = 1
    /\ At(src, 262) = 252
    /\ IsErr(ret, "InvalidDiscData", 263)

\* an image of two sectors declaring 1023 sectors has decoded
C11_WitnessLarge ==
    /\ Decoded
    /\ Len(src) = 512
    /\ DeclaredSectors(src) = 1023
    /\ ret.ok

\* the name, the sector count and the cycle byte of the image pass
HeaderAccepted(s) ==
    /\ Len(s) >= 512
    /\ ValidDiscName(s)
    /\ DeclaredSectors(s) >= 2
    /\ At(s, 260) \div 16 <= 9
    /\ At(s, 260) % 16 <= 9

\* the offsets of the catalogue slots with index n and above
SlotsFrom(n) ==
    {o \in 0..511 : (o >= 8 + 8 * n /\ o < 256) \/ o >= 264 + 8 * n}

\* C12: with a header that passes, from_bytes fails with InvalidDiscData(0x105)
\* when the low 3 bits of src[0x105] are not zero; otherwise it reads exactly
\* the entries with index < src[0x105] >> 3: a decoded Disc holds that many
\* files, with the keys of those entries, no error names an offset in a slot
\* at or beyond that index, and the image decodes when the entries below it
\* are sound and differ in their keys.
C12_EntryCount ==
    (Decoded /\ HeaderAccepted(src)) =>
        LET raw == At(src, 261)
            n == raw \div 8
        IN  IF raw % 8 # 0 THEN IsErr(ret, "InvalidDiscData", 261)
            ELSE /\ ret.ok =>
                      /\ Cardinality(ret.val.files) = n
                      /\ {f.name : f \in ret.val.files} = {RawKey(src, i) : i \in 0..(n - 1)}
                 /\ ~ret.ok =>
                      \/ ret.err.tag = "DuplicateFileName"
                      \/ ret.err.tag = "InvalidDiscData" /\ ret.err.arg \notin SlotsFrom(n)
                 /\ (/\ \A i \in 0..(n - 1) : PopulateEntry(src, i, {}).ok
                     /\ \A i \in 0..(n - 1) : \A j \in 0..(n - 1) :
                           i # j => RawKey(src, i) # RawKey(src, j))
                    => ret.ok

\* an image declaring two entries whose third slot holds bytes 0xFF has decoded
\* to two files
C12_Witness ==
    /\ Decoded
    /\ At(src, 261) = 16
    /\ At(src, 24) = 255
    /\ At(src, 280) = 255
    /\ ret.ok
    /\ Cardinality(ret.val.files) = 2

-----------------------------------------------------------------------------
(* Decoding catalogue entries: the caller hands from_bytes images with two  *)
(* entries, one of them sound and the other varied in its bytes.            *)

\* the 8 bytes of sector 1 that declare load l, exec e, length n and start
\* sector s
RawAddressEntry(l, e, n, s) ==
    << l % 256, (l \div 256) % 256, e % 256, (e \div 256) % 256,
       n % 256, (n \div 256) % 256,
       64 * ((e \div 65536) % 4) + 16 * ((n \div 65536) % 4)
         + 4 * ((l \div 65536) % 4) + ((s \div 256) % 4),
       s % 256 >>

\* "Small"
SmallName == <<83, 109, 97, 108, 108>>

\* the sound entry: $.Same, one byte at sector 2
GoodNameEntry == copy_space_padded(7, <<83, 97, 109, 101>>) \o <<36>>
GoodAddressEntry == RawAddressEntry(0, 0, 1, 2)

\* an image with two entries, the one of index i made of name8 and addr8, and
\* `data` after the two header sectors
EntryImage(i, name8, addr8, data) ==
    HeaderImage(copy_space_padded(12, DiscNameBytes), 17, 16, 0, 4,
                IF i = 0 THEN <<name8, GoodNameEntry>> ELSE <<GoodNameEntry, name8>>,
                IF i = 0 THEN <<addr8, GoodAddressEntry>> ELSE <<GoodAddressEntry, addr8>>)
      \o data

TwoDataSectors == DataSector(49) \o DataSector(50)

\* 257 sectors of data whose bytes differ from their neighbours
BigData == [k \in 1..(257 * SECTOR_SIZE) |-> k % 251]

\* the bytes tried in a file name and as directory byte
EntryNameBytes == {0, 1, 31, 32, 33, 126, 127, 128, 255}
EntryDirBytes == {36, 164, 127, 31}

EntryStarts == {0, 1, 2, 3, 4, 5, 256, 1023}
EntryLens == {0, 1, 255, 256, 257, 512, 513, 65536, 262143}

\* addresses of 16 and of 18 bits
EntryAddrs == {0, MaxAddr, 4660, 196608 + 22136, 262143}

NextEntry ==
    \/ \E i \in {0, 1}, p \in 0..6, v \in EntryNameBytes, d \in EntryDirBytes :
          FromBytes(EntryImage(i, Poke(copy_space_padded(7, SmallName) \o <<d>>, p, <<v>>),
                               RawAddressEntry(0, 0, 1, 3), TwoDataSectors))
    \/ \E i \in {0, 1}, s \in EntryStarts, n \in EntryLens,
          data \in {TwoDataSectors, TwoDataSectors \o DataSector(51)} :
          FromBytes(EntryImage(i, copy_space_padded(7, SmallName) \o <<36>>,
                               RawAddressEntry(0, 0, n, s), data))
    \/ \E i \in {0, 1}, l \in EntryAddrs, e \in EntryAddrs, d \in {36, 164},
          s \in {2, 3}, n \in {0, 12, 256} :
          FromBytes(EntryImage(i, copy_space_padded(7, SmallName) \o <<d>>,
                               RawAddressEntry(l, e, n, s), TwoDataSectors))
    \/ \E s \in {2, 257, 258}, n \in {1, 65537, 65536 + 256} :
          FromBytes(EntryImage(1, copy_space_padded(7, SmallName) \o <<36>>,
                               RawAddressEntry(4660, 22136, n, s), BigData))

SpecEntry == Init /\ [][NextEntry]_vars

\* the number of entries the image declares
EntryCount(s) == At(s, 261) \div 8

LE16(s, o) == At(s, o) + 256 * At(s, o + 1)

EntryBusy(s, i) == At(s, 270 + 8 * i)

\* start sector and length entry i declares
EntryStart(s, i) == At(s, 271 + 8 * i) + 256 * (EntryBusy(s, i) % 4)
EntryLen(s, i) == LE16(s, 268 + 8 * i) + 65536 * ((EntryBusy(s, i) \div 16) % 4)

\* the header passes, the entries before entry i decode, and entry i is one
\* of the entries read
ReachesEntry(s, i) ==
    /\ HeaderAccepted(s)
    /\ At(s, 261) % 8 = 0
    /\ i < EntryCount(s)
    /\ PopulateFrom(s, 0, i, {}).ok

\* the directory byte of entry i without its top bit is a printing character
EntryDirValid(s, i) ==
    At(s, 15 + 8 * i) % 128 >= 32 /\ At(s, 15 + 8 * i) % 128 <= 126

\* the j-th name byte of entry i
EntryNameByte(s, i, j) == At(s, 8 + 8 * i + j)

\* the count of leading name bytes of entry i that differ from space
EntryNameLenToSpace(s, i) ==
    LET ends == {j \in 0..6 : EntryNameByte(s, i, j) = 32}
    IN  IF ends = {} THEN 7 ELSE CHOOSE j \in ends : \A k \in ends : j <= k

\* C13: for catalogue entry i the name length is the count of leading bytes
\* different from space among the 7 name bytes at 0x008 + 8i, and a byte
\* within that length outside 0x20..0x7E (a control byte included) makes
\* from_bytes fail with InvalidDiscData(0x008 + 8i + index of the first such
\* byte).
C13_FileNameValidation ==
    Decoded =>
        \A i \in 0..1 :
            (ReachesEntry(src, i) /\ EntryDirValid(src, i)) =>
                LET len == EntryNameLenToSpace(src, i)
                    bad == {j \in 0..(len - 1) :
                               EntryNameByte(src, i, j) < 32 \/ EntryNameByte(src, i, j) > 126}
                IN  bad # {} =>
                        IsErr(ret, "InvalidDiscData",
                              8 + 8 * i + (CHOOSE j \in bad : \A k \in bad : j <= k))

\* C14: for catalogue entry i with start sector s and length n, from_bytes
\* fails with InvalidDiscData(0x108 + 8i + 7) when s * 256 < 0x200, and
\* otherwise with InvalidDiscData(0x108 + 8i + 6) when s * 256 + n > src.len();
\* when both hold the start-sector error is the one reported, and when neither
\* holds no error names one of the two offsets.
C14_ExtentValidation ==
    Decoded =>
        \A i \in 0..1 :
            (/\ ReachesEntry(src, i)
             /\ EntryDirValid(src, i)
             /\ \A j \in 0..6 : EntryNameByte(src, i, j) <= 126) =>
                LET s == EntryStart(src, i)
                    n == EntryLen(src, i)
                IN  IF s * 256 < 512 THEN IsErr(ret, "InvalidDiscData", 264 + 8 * i + 7)
                    ELSE IF s * 256 + n > Len(src)
                         THEN IsErr(ret, "InvalidDiscData", 264 + 8 * i + 6)
                    ELSE /\ ~IsErr(ret, "InvalidDiscData", 264 + 8 * i + 7)
                         /\ ~IsErr(ret, "InvalidDiscData", 264 + 8 * i + 6)

\* entry 1 starts in the catalogue and declares more bytes than the image
\* holds: the start-sector error has been reported
C14_Witness ==
    /\ Decoded
    /\ ReachesEntry(src, 1)
    /\ EntryStart(src, 1) = 1
    /\ EntryLen(src, 1) = 262143
    /\ Len(src) = 1024
    /\ IsErr(ret, "InvalidDiscData", 279)

\* entry 1 starts at sector 3 and ends one byte past the image
C14_WitnessEnd ==
    /\ Decoded
    /\ ReachesEntry(src, 1)
    /\ EntryStart(src, 1) = 3
    /\ EntryLen(src, 1) = 257
    /\ Len(src) = 1024
    /\ IsErr(ret, "InvalidDiscData", 278)

\* the file entry i of the image declares
EntryFile(s, i) ==
    [name |-> RawKey(s, i),
     load_addr |-> LE16(s, 264 + 8 * i) + 65536 * ((EntryBusy(s, i) \div 4) % 4),
     exec_addr |-> LE16(s, 266 + 8 * i) + 65536 * ((EntryBusy(s, i) \div 64) % 4),
     is_locked |-> At(s, 15 + 8 * i) >= 128,
     content |-> SubSeq(s, EntryStart(s, i) * 256 + 1, EntryStart(s, i) * 256 + EntryLen(s, i))]

\* C15: the files of a successfully decoded image are the files its entries
\* declare: load, exec and length are the 16-bit little-endian words extended
\* by bits 2-3, 6-7 and 4-5 of the busy byte, the start sector is extended by
\* bits 0-1, locked is bit 7 of the directory byte, the directory its low 7
\* bits, and the content is src[s*256 .. s*256 + n].
C15_DecodedFields ==
    (Decoded /\ ret.ok) =>
        ret.val.files = {EntryFile(src, i) : i \in 0..(EntryCount(src) - 1)}

\* a locked file with 18-bit load and exec addresses has decoded
C15_Witness ==
    /\ Decoded
    /\ ret.ok
    /\ \E f \in ret.val.files :
          /\ f.is_locked
          /\ f.load_addr = 262143
          /\ f.exec_addr = 196608 + 22136
          /\ Len(f.content) = 12

\* a file of more than 65536 bytes has decoded
C15_WitnessLong ==
    /\ Decoded
    /\ ret.ok
    /\ EntryStart(src, 1) = 2
    /\ \E f \in ret.val.files : Len(f.content) = 65536 + 256

\* a file starting beyond sector 255 has decoded
C15_WitnessFar ==
    /\ Decoded
    /\ ret.ok
    /\ EntryStart(src, 1) = 257
    /\ \E f \in ret.val.files : f.content = <<(257 * 256 - 512 + 1) % 251>>

-----------------------------------------------------------------------------
(* BCD as pure functions: the caller builds a BCD from a decimal value or   *)
(* from a packed byte and converts it back with into_u8.                    *)

FromU8(x) ==
    /\ pc.op = "init"
    /\ ret' = BCD_from_u8(x)
    /\ pc' = [op |-> "from_u8", arg |-> x]
    /\ UNCHANGED <<src, disc, target>>

FromHex(x) ==
    /\ pc.op = "init"
    /\ ret' = BCD_from_hex(x)
    /\ pc' = [op |-> "from_hex", arg |-> x]
    /\ UNCHANGED <<src, disc, target>>

\* into_u8 on the BCD just built; pc keeps how it was built
IntoU8 ==
    /\ pc.op \in {"from_u8", "from_hex"}
    /\ ret.ok
    /\ ret' = BCD_into_u8(ret.val)
    /\ pc' = [op |-> "into_u8", of |-> pc.op, arg |-> pc.arg, value |-> ret.val]
    /\ UNCHANGED <<src, disc, target>>

NextBCD ==
    \/ \E x \in 0..255 : FromU8(x)
    \/ \E x \in 0..255 : FromHex(x)
    \/ IntoU8

SpecBCD == Init /\ [][NextBCD]_vars

\* C16: a BCD built from a decimal value d is built exactly when d <= 99, and
\* into_u8 of it returns d; for d >= 100 the construction fails with
\* IntValueTooLarge.
C16_DecimalRoundTrip ==
    /\ pc.op = "from_u8" =>
          IF pc.arg <= 99 THEN ret.ok ELSE ret = Err("IntValueTooLarge")
    /\ (pc.op = "into_u8" /\ pc.of = "from_u8") => ret = pc.arg

\* C17: from_hex(b) succeeds exactly when both nibbles of b are <= 9 and fails
\* with InvalidHexValue otherwise, the stored value is b unchanged, and
\* into_u8 of the result is 10 * (b >> 4) + (b & 15).
C17_FromHex ==
    /\ pc.op = "from_hex" =>
          IF pc.arg \div 16 <= 9 /\ pc.arg % 16 <= 9 THEN ret = Ok(pc.arg)
          ELSE ret = Err("InvalidHexValue")
    /\ (pc.op = "into_u8" /\ pc.of = "from_hex") =>
          ret = 10 * (pc.arg \div 16) + (pc.arg % 16)

-----------------------------------------------------------------------------
(* The cycle count: the caller holds a Disc with some valid BCD cycle (set  *)
(* through cycle_mut or decoded) and calls increment_cycle again and again. *)

\* the bytes that are valid BCD
ValidBCD == {b \in 0..255 : b \div 16 <= 9 /\ b % 16 <= 9}

\* the decimal value a valid BCD byte represents
Decimal(b) == 10 * (b \div 16) + (b % 16)

InitCycle ==
    /\ src = <<>>
    /\ \E c \in ValidBCD : disc = [Disc_new EXCEPT !.cycle = c]
    /\ ret = None
    /\ target = <<>>
    /\ pc = [op |-> "init"]

IncrementCycle ==
    /\ disc # NoDisc
    /\ disc' = increment_cycle(disc)
    /\ pc' = [op |-> "increment_cycle", arg |-> disc.cycle]
    /\ UNCHANGED <<src, ret, target>>

NextCycle == IncrementCycle

SpecCycle == InitCycle /\ [][NextCycle]_vars

\* C18: one call of increment_cycle on a Disc whose cycle represents decimal c
\* leaves a cycle that is valid BCD and represents (c + 1) mod 100, 99
\* wrapping to 0; after any number of calls the cycle is valid BCD.
C18_IncrementCycle ==
    /\ disc.cycle \in ValidBCD
    /\ pc.op = "increment_cycle" =>
          Decimal(disc.cycle) = (Decimal(pc.arg) + 1) % 100

-----------------------------------------------------------------------------
(* Encoding as a state machine: a caller holds a Disc, adds files to it in  *)
(* some order and writes it with to_image.  pc.added keeps the keys in the  *)
(* order they were added, pc.adds the number of calls of add_file the       *)
(* caller makes at most.                                                    *)

\* content of n bytes
Content(n, b) == [k \in 1..n |-> b]

\* the files added: $.b, $.a, $.ab and A.z with contents of 0, 1, 257 and 256
\* bytes, and $.a again with another content
EncodeFiles ==
    {File_new(<<98>>, 36, 0, 0, FALSE, <<>>),
     File_new(<<97>>, 36, MaxAddr, 0, FALSE, <<1>>),
     File_new(<<97, 98>>, 36, 0, 0, FALSE, Content(257, 2)),
     File_new(<<122>>, 65, 0, 0, FALSE, Content(256, 3)),
     File_new(<<97>>, 36, 0, 0, FALSE, <<4>>)}

\* files at the limits: B.big of 797 sectors, C.max of 0x3FFFF bytes, and
\* C.huge and D.huge of 0x40000 and 0x40001 bytes
BigFile == File_new(<<98, 105, 103>>, 66, 0, 0, FALSE, Content(797 * SECTOR_SIZE, 5))
MaxFile == File_new(<<109, 97, 120>>, 67, 0, 0, FALSE, Content(262143, 6))
HugeFile == File_new(<<104, 117, 103, 101>>, 67, 0, 0, FALSE, Content(262144, 7))
HugerFile == File_new(<<104, 117, 103, 101>>, 68, 0, 0, FALSE, Content(262145, 8))

\* C.tiny of one sector
TinyFile == File_new(<<116, 105, 110, 121>>, 67, 0, 0, FALSE, <<9>>)

\* the file sets of the Discs written at the limits
LimitStarts ==
    {{}, {BigFile}, {BigFile, TinyFile}, {MaxFile}, {HugeFile},
     {BigFile, HugeFile, HugerFile}}

\* at most this many calls of add_file, on an empty Disc and on a Disc at the
\* limits
EncodeAdds == 3
LimitAdds == 1

\* the Discs with the file set `files`: the new Disc, and one with a name, a
\* boot option and a cycle
DiscsWith(files) ==
    {[Disc_new EXCEPT !.files = files],
     [name |-> FullName, boot_option |-> 3, cycle |-> 37, files |-> files]}

InitEncode ==
    /\ src = <<>>
    /\ disc \in DiscsWith({})
    /\ ret = None
    /\ target = <<>>
    /\ pc = [op |-> "init", added |-> <<>>, adds |-> EncodeAdds]

InitLimits ==
    /\ src = <<>>
    /\ \E files \in LimitStarts : disc \in DiscsWith(files)
    /\ ret = None
    /\ target = <<>>
    /\ pc = [op |-> "init", added |-> <<>>, adds |-> LimitAdds]

AddFileInOrder(file) ==
    /\ pc.op \in {"init", "add_file"}
    /\ Len(pc.added) < pc.adds
    /\ \E o \in add_file(disc, file) :
          /\ disc' = [disc EXCEPT !.files = o.files]
          /\ ret' = o.ret
    /\ pc' = [pc EXCEPT !.op = "add_file", !.added = Append(pc.added, file.name)]
    /\ UNCHANGED <<src, target>>

WriteImage ==
    /\ pc.op \in {"init", "add_file"}
    /\ \E o \in to_image(disc) :
          /\ ret' = o.ret
          /\ target' = target \o o.written
    /\ pc' = [pc EXCEPT !.op = "to_image"]
    /\ UNCHANGED <<src, disc>>

NextEncode ==
    \/ \E file \in EncodeFiles : AddFileInOrder(file)
    \/ WriteImage

SpecEncode == InitEncode /\ [][NextEncode]_vars

SpecLimits == InitLimits /\ [][NextEncode]_vars

UniqueKeys(files) == \A f \in files : \A g \in files : SameKey(f, g) => f = g

\* key a comes before key b: directory first, then name, byte by byte
KeyBefore(a, b) ==
    \/ a.dir < b.dir
    \/ /\ a.dir = b.dir
       /\ \E k \in 1..(Len(b.name)) :
             /\ \A j \in 1..(k - 1) : j <= Len(a.name) /\ a.name[j] = b.name[j]
             /\ k > Len(a.name) \/ a.name[k] < b.name[k]

\* C19: the image to_image writes for a Disc with unique keys does not depend
\* on the order its files were added or are iterated in: there is one possible
\* output, and in it the catalogue entries are in ascending key order
\* (directory first, then name) and each file's data starts where the data of
\* the entry before it ends, the first at sector 2.
C19_OrderIndependent ==
    (pc.op = "to_image" /\ ret.ok /\ UniqueKeys(disc.files)) =>
        LET n == Cardinality(disc.files)
        IN  /\ Cardinality(to_image(disc)) = 1
            /\ EntryCount(target) = n
            /\ {EntryFile(target, i).name : i \in 0..(n - 1)} = {f.name : f \in disc.files}
            /\ \A i \in 0..(n - 2) : KeyBefore(RawKey(target, i), RawKey(target, i + 1))
            /\ n > 0 => EntryStart(target, 0) = 2
            /\ \A i \in 0..(n - 2) :
                  EntryStart(target, i + 1)
                    = EntryStart(target, i) + ((EntryLen(target, i) + 255) \div 256)
            /\ \A i \in 0..(n - 1) : \E f \in disc.files :
                  f.name = RawKey(target, i) /\ f.content = EntryFile(target, i).content

\* A.z and $.ab were added in this order and the image holds $.ab, then A.z
C19_Witness ==
    /\ pc.op = "to_image"
    /\ ret.ok
    /\ pc.added = <<Key_new(<<122>>, 65), Key_new(<<97, 98>>, 36)>>
    /\ Cardinality(disc.files) = 2
    /\ RawKey(target, 0) = Key_new(<<97, 98>>, 36)
    /\ RawKey(target, 1) = Key_new(<<122>>, 65)
    /\ EntryStart(target, 1) = 4

\* C20: to_image fails with InputTooLarge(len) when some file's content length
\* len exceeds 0x3FFFF, and with InputTooLarge when the end sector (2 plus the
\* sum of the files' sector counts) exceeds 800; in both cases nothing has
\* been written to the sink; an end sector of up to 800 is accepted.
C20_EncodeLimits ==
    pc.op = "to_image" =>
        LET long == {f \in disc.files : Len(f.content) > 262143}
            end == 2 + SumSectors(disc.files)
        IN  IF long # {}
            THEN /\ \E f \in long : ret = Err(InputTooLarge(Len(f.content)))
                 /\ target = <<>>
            ELSE IF end > 800
                 THEN /\ ~ret.ok
                      /\ ret.err.tag = "InputTooLarge"
                      /\ target = <<>>
            ELSE /\ ret = Ok(end)
                 /\ Len(target) = end * 256

\* a Disc whose files end at sector 801 has been rejected
C20_Witness ==
    /\ pc.op = "to_image"
    /\ 2 + SumSectors(disc.files) = 801
    /\ ret = Err(InputTooLarge(801))
    /\ target = <<>>

\* a Disc whose files end at sector 800 has been written
C20_WitnessAccepted ==
    /\ pc.op = "to_image"
    /\ ret = Ok(800)
    /\ Len(target) = 800 * 256

\* a Disc holding a file of 0x40000 bytes has been rejected
C20_WitnessLong ==
    /\ pc.op = "to_image"
    /\ HugeFile \in disc.files
    /\ ret = Err(InputTooLarge(262144))
    /\ target = <<>>

-----------------------------------------------------------------------------
(* Claims about the bytes to_image writes into the two header sectors.      *)

Written == pc.op = "to_image" /\ ret.ok

\* C21: in the image written by to_image, the directory byte of catalogue
\* entry i (offset 0x008 + 8i + 7) has its low 7 bits equal to the file's
\* directory character and bit 7 set exactly when the file is locked.
C21_LockedFlagWritten ==
    (Written /\ UniqueKeys(disc.files)) =>
        \A i \in 0..(Cardinality(disc.files) - 1) :
            \E f \in disc.files :
                /\ f.name = RawKey(target, i)
                /\ At(target, 15 + 8 * i) % 128 = f.name.dir
                /\ (At(target, 15 + 8 * i) >= 128) = f.is_locked

\* B.mid of 254 sectors: alone on a Disc it ends at sector 256
MidFile == File_new(<<109, 105, 100>>, 66, 0, 0, FALSE, Content(254 * SECTOR_SIZE, 5))

InitCount ==
    /\ src = <<>>
    /\ \E files \in {{}, {MidFile}} : disc \in DiscsWith(files)
    /\ ret = None
    /\ target = <<>>
    /\ pc = [op |-> "init", added |-> <<>>, adds |-> EncodeAdds]

\* encoding Discs that end below and above sector 256
SpecCount == InitCount /\ [][NextEncode]_vars

\* C22: in the image written by to_image, byte 0x106 holds the boot option in
\* bits 4-5 and bits 8-9 of the end sector in bits 0-1, and byte 0x107 the low
\* 8 bits of the end sector, so the 10-bit sector count from_bytes reads is
\* the sector count to_image returns.
C22_SectorCountWritten ==
    Written =>
        /\ At(target, 262) = 16 * disc.boot_option + ((ret.val \div 256) % 4)
        /\ At(target, 263) = ret.val % 256
        /\ DeclaredSectors(target) = ret.val

\* the codec on a Disc without files, for every cycle
SpecCycleImage == InitCycle /\ [][NextCodec]_vars

\* C23: for every Disc whose cycle represents decimal c in 0..99, byte 0x104 of
\* the image written by to_image is the packed BCD byte of c (high nibble
\* c / 10, low nibble c mod 10), and from_bytes on that image returns the same
\* cycle and does not fail with InvalidDiscData(0x104).
C23_CycleWritten ==
    /\ Written =>
          At(target, 260) = 16 * (Decimal(disc.cycle) \div 10) + (Decimal(disc.cycle) % 10)
    /\ pc.op = "from_bytes" =>
          /\ ~IsErr(ret, "InvalidDiscData", 260)
          /\ ret.ok => ret.val.cycle = disc.cycle

-----------------------------------------------------------------------------
(* Addresses: the caller builds files with File::new, with load and exec    *)
(* addresses of 18 bits and of more, adds them to a Disc, writes the Disc   *)
(* and decodes what was written.                                            *)

\* the addresses given to File::new: 0x3FFFF and 0x40000 among them
AddrValues == {0, MaxAddr, 262143, 262144}

AddrFiles ==
    {File_new(name, 36, l, e, FALSE, <<>>) :
        name \in {<<97>>, <<98>>}, l \in AddrValues, e \in AddrValues}

InitAddr ==
    /\ src = <<>>
    /\ disc \in DiscsWith({})
    /\ ret = None
    /\ target = <<>>
    /\ pc = [op |-> "init", added |-> <<>>, adds |-> LimitAdds]

NextAddr ==
    \/ \E file \in AddrFiles : AddFileInOrder(file)
    \/ WriteImage
    \/ DecodeWritten

SpecAddr == InitAddr /\ [][NextAddr]_vars

\* C24: every File held by a Disc, whether produced by from_bytes or built
\* with File::new and inserted with add_file, has load_addr < 0x40000 and
\* exec_addr < 0x40000, and the addresses decoded from the image to_image
\* writes are the addresses of the Disc's files.
C24_AddressesAre18Bit ==
    /\ disc # NoDisc =>
          \A f \in disc.files : f.load_addr < 262144 /\ f.exec_addr < 262144
    /\ (pc.op = "from_bytes" /\ ret.ok) =>
          /\ \A f \in ret.val.files : f.load_addr < 262144 /\ f.exec_addr < 262144
          /\ {<<f.name, f.load_addr, f.exec_addr>> : f \in ret.val.files}
               = {<<f.name, f.load_addr, f.exec_addr>> : f \in disc.files}

-----------------------------------------------------------------------------
(* AsciiPrintingChar as pure functions: the caller builds a character from  *)
(* a byte and converts it back.  A char is modelled by its code point.      *)

\* impl From<AsciiPrintingChar> for u8: src.value as u8
AsciiPrintingChar_into_u8(value) == U8(value)

CharFromU8(x) ==
    /\ pc.op = "init"
    /\ ret' = AsciiPrintingChar_from_u8(x)
    /\ pc' = [op |-> "char_from_u8", arg |-> x]
    /\ UNCHANGED <<src, disc, target>>

CharIntoU8 ==
    /\ pc.op = "char_from_u8"
    /\ ret.ok
    /\ ret' = AsciiPrintingChar_into_u8(ret.val)
    /\ pc' = [op |-> "char_into_u8", arg |-> pc.arg]
    /\ UNCHANGED <<src, disc, target>>

NextChar ==
    \/ \E x \in 0..255 : CharFromU8(x)
    \/ CharIntoU8

SpecChar == Init /\ [][NextChar]_vars

\* C25: constructing an AsciiPrintingChar from a byte b succeeds exactly when
\* 0x20 <= b <= 0x7E, every byte below 0x20 and from 0x7F to 0xFF being
\* rejected, and converting a constructed value back to a byte returns b.
C25_PrintingChar ==
    /\ pc.op = "char_from_u8" => (ret.ok <=> (32 <= pc.arg /\ pc.arg <= 126))
    /\ pc.op = "char_into_u8" => ret = pc.arg

\* '~' (0x7E) has been built and converted back
C25_Witness ==
    /\ pc.op = "char_into_u8"
    /\ pc.arg = 126
    /\ ret = 126

-----------------------------------------------------------------------------
(* The 8-byte address entry as a pure function: the caller has to_image     *)
(* pack an entry and populate_files unpack the bytes written.               *)

\* the four values populate_files reads from the 8 bytes at offset2
UnpackEntry(source, offset2) ==
    LET busy_byte == At(source, offset2 + 6)
    IN  [load_addr |-> BitOr(u16_from_le(Slice(source, offset2, offset2 + 2)),
                             BitAnd(U32(Shl(busy_byte, 14)), 196608)),
         exec_addr |-> BitOr(u16_from_le(Slice(source, offset2 + 2, offset2 + 4)),
                             BitAnd(U32(Shl(busy_byte, 10)), 196608)),
         file_len |-> BitOr(u16_from_le(Slice(source, offset2 + 4, offset2 + 6)),
                            BitAnd(U32(Shl(busy_byte, 12)), 196608)),
         start_sector |-> BitOr(At(source, offset2 + 7),
                                BitAnd(U32(Shl(busy_byte, 8)), 768))]

\* addresses, contents and start sectors at the ends of each byte and of the
\* two high bits
PackAddrs == {0, MaxAddr, 65535, 65536, 131072 + 4660, 262143}
PackContents == {Content(n, 0) : n \in {0, 1, 65535, 65536, 196608 + 255, 262143}}
PackStarts == {0, 1, 2, 255, 256, 512 + 7, 1023}

PackEntry(l, e, content, s) ==
    /\ pc.op = "init"
    /\ target' = AddressEntry(File_new(<<97>>, 36, l, e, FALSE, content), s)
    /\ pc' = [op |-> "pack", load_addr |-> l, exec_addr |-> e,
              file_len |-> Len(content), start_sector |-> s]
    /\ UNCHANGED <<src, disc, ret>>

UnpackWritten ==
    /\ pc.op = "pack"
    /\ ret' = UnpackEntry(target, 0)
    /\ pc' = [pc EXCEPT !.op = "unpack"]
    /\ UNCHANGED <<src, disc, target>>

NextPack ==
    \/ \E l \in PackAddrs, e \in PackAddrs, content \in PackContents, s \in PackStarts :
          PackEntry(l, e, content, s)
    \/ UnpackWritten

SpecPack == Init /\ [][NextPack]_vars

\* C26: for load, exec and length in 0..0x3FFFF and a start sector in
\* 0..0x3FF, the entry to_image writes holds the low 16 bits of load, exec and
\* length little-endian, the busy byte with exec bits 16-17 in bits 6-7,
\* length bits 16-17 in bits 4-5, load bits 16-17 in bits 2-3 and start bits
\* 8-9 in bits 0-1, then the low byte of the start sector, and populate_files
\* decodes it back to the same four values.
C26_PackingInverse ==
    /\ pc.op \in {"pack", "unpack"} =>
          target = RawAddressEntry(pc.load_addr, pc.exec_addr, pc.file_len, pc.start_sector)
    /\ pc.op = "unpack" =>
          /\ ret.load_addr = pc.load_addr
          /\ ret.exec_addr = pc.exec_addr
          /\ ret.file_len = pc.file_len
          /\ ret.start_sector = pc.start_sector

\* an entry with all four high-bit pairs different has been unpacked
C26_Witness ==
    /\ pc.op = "unpack"
    /\ pc.load_addr = 131072 + 4660
    /\ pc.exec_addr = 262143
    /\ pc.file_len = 65536
    /\ pc.start_sector = 1023
    /\ ret.exec_addr = 262143
    /\ ret.file_len = 65536

-----------------------------------------------------------------------------
(* Claims about the sectors to_image gives to the files.                    *)

\* the number of sectors a content of n bytes takes
SectorsOf(n) == (n + 255) \div 256

\* the index of the catalogue entry of the image that carries the key
EntryOf(image, key) ==
    CHOOSE i \in 0..(EntryCount(image) - 1) : RawKey(image, i) = key

\* the files of the set whose key comes before the key of f
FilesBefore(files, f) == {g \in files : KeyBefore(g.name, f.name)}

\* C27: in to_image the k-th file in key order gets start sector 2 + the sum
\* of ceil(len / 256) over the files before it, the returned sector count is
\* 2 + the sum over all files, no start sector is below 2, and the sector
\* ranges of distinct files do not overlap.
C27_SequentialSectors ==
    (Written /\ UniqueKeys(disc.files)) =>
        /\ ret.val = 2 + SumSectors(disc.files)
        /\ \A f \in disc.files :
              LET s == EntryStart(target, EntryOf(target, f.name))
              IN  /\ s = 2 + SumSectors(FilesBefore(disc.files, f))
                  /\ s >= 2
                  /\ \A g \in disc.files \ {f} :
                        LET t == EntryStart(target, EntryOf(target, g.name))
                        IN  \/ s + SectorsOf(Len(f.content)) <= t
                            \/ t + SectorsOf(Len(g.content)) <= s

\* $.a, $.ab and A.z have been written at sectors 2, 3 and 5
C27_Witness ==
    /\ Written
    /\ {f.name : f \in disc.files}
         = {Key_new(<<97>>, 36), Key_new(<<97, 98>>, 36), Key_new(<<122>>, 65)}
    /\ UniqueKeys(disc.files)
    /\ EntryStart(target, 0) = 2
    /\ EntryStart(target, 1) = 3
    /\ EntryStart(target, 2) = 5
    /\ ret.val = 6

\* C28: when to_image succeeds it has written exactly 256 * (returned sector
\* count) bytes, each file's content begins at byte offset 256 * its catalogue
\* start sector, and the bytes between the end of a content and the next
\* 256-byte boundary are zero; nothing is written after a content whose
\* length is a multiple of 256.
C28_ImageSize ==
    (Written /\ UniqueKeys(disc.files)) =>
        /\ Len(target) = 256 * ret.val
        /\ \A f \in disc.files :
              LET s == EntryStart(target, EntryOf(target, f.name))
                  n == Len(f.content)
              IN  /\ 256 * s + n <= Len(target)
                  /\ SubSeq(target, 256 * s + 1, 256 * s + n) = f.content
                  /\ \A k \in (256 * s + n + 1)..(256 * (s + SectorsOf(n))) :
                        k <= Len(target) /\ target[k] = 0

\* $.ab (257 bytes), $.b (empty) and A.z (256 bytes) have been written in five
\* sectors
C28_Witness ==
    /\ Written
    /\ {f.name : f \in disc.files}
         = {Key_new(<<97, 98>>, 36), Key_new(<<98>>, 36), Key_new(<<122>>, 65)}
    /\ ret.val = 5
    /\ Len(target) = 1280
    /\ target[512 + 257] = 2
    /\ target[512 + 258] = 0
    /\ target[1280] = 3

-----------------------------------------------------------------------------
(* Decoding images with several defects: the caller hands from_bytes        *)
(* four-sector images with two catalogue entries, in which each step of the *)
(* decoder may find a defect.                                               *)

HeaderDefects == {"name", "count", "cycle", "low"}
EntryDefects == {"dir", "name", "start", "end"}

\* how entry 1 relates to entry 0: another key, the same entry again, or the
\* same key with another load address
DupKinds == {"none", "same", "differs"}

\* the 8 name bytes of an entry with the defects d
DefectNameEntry(name, d) ==
    Poke(copy_space_padded(7, name) \o <<IF "dir" \in d THEN 127 ELSE 36>>,
         2, IF "name" \in d THEN <<255>> ELSE <<>>)

\* the 8 address bytes of an entry with the defects d
DefectAddressEntry(l, d) ==
    RawAddressEntry(l, 0, IF "end" \in d THEN 262143 ELSE 1,
                    IF "start" \in d THEN 1 ELSE 2)

\* the image with header defects h, defects d0 and d1 in entries 0 and 1
DefectImage(h, d0, d1, dup) ==
    HeaderImage(copy_space_padded(12, IF "name" \in h THEN <<255>> \o Tail(DiscNameBytes)
                                      ELSE DiscNameBytes),
                IF "cycle" \in h THEN 26 ELSE 17,
                IF "low" \in h THEN 17 ELSE 16,
                0,
                IF "count" \in h THEN 1 ELSE 4,
                <<DefectNameEntry(SmallName, d0),
                  DefectNameEntry(IF dup = "none" THEN <<83, 97, 109, 101>> ELSE SmallName, d1)>>,
                <<DefectAddressEntry(0, d0),
                  DefectAddressEntry(IF dup = "differs" THEN MaxAddr ELSE 0, d1)>>)
      \o TwoDataSectors

NextDefects ==
    \/ \E h \in SUBSET HeaderDefects, d0 \in SUBSET EntryDefects :
          FromBytes(DefectImage(h, d0, {}, "none"))
    \/ \E low \in SUBSET {"low"}, d0 \in SUBSET EntryDefects, d1 \in SUBSET EntryDefects,
          dup \in DupKinds :
          FromBytes(DefectImage(low, d0, d1, dup))

SpecDefects == Init /\ [][NextDefects]_vars

\* the index of the first name byte of entry i outside 0x21..0x7E, 7 when
\* there is none
EntryNameEnd(s, i) ==
    LET ends == {j \in 0..6 : EntryNameByte(s, i, j) < 33 \/ EntryNameByte(s, i, j) > 126}
    IN  IF ends = {} THEN 7 ELSE CHOOSE j \in ends : \A k \in ends : j <= k

\* entry i repeats an earlier entry: its key when byKey, all its fields
\* otherwise
Repeats(s, i, byKey) ==
    \E j \in 0..(i - 1) :
        IF byKey THEN RawKey(s, j) = RawKey(s, i) ELSE EntryFile(s, j) = EntryFile(s, i)

\* the result is the one of the first defect of the entries from index i on,
\* taken in the order directory byte, name bytes, start sector, data end,
\* repeated entry; it is Ok when there is no defect
RECURSIVE EntryPrecedence(_, _, _, _)
EntryPrecedence(s, r, i, byKey) ==
    IF i >= EntryCount(s) THEN r.ok
    ELSE IF ~EntryDirValid(s, i) THEN IsErr(r, "InvalidDiscData", 15 + 8 * i)
    ELSE IF EntryNameEnd(s, i) < 7 /\ EntryNameByte(s, i, EntryNameEnd(s, i)) > 126
         THEN IsErr(r, "InvalidDiscData", 8 + 8 * i + EntryNameEnd(s, i))
    ELSE IF EntryStart(s, i) < 2 THEN IsErr(r, "InvalidDiscData", 271 + 8 * i)
    ELSE IF EntryStart(s, i) * 256 + EntryLen(s, i) > Len(s)
         THEN IsErr(r, "InvalidDiscData", 270 + 8 * i)
    ELSE IF Repeats(s, i, byKey) THEN ~r.ok /\ r.err.tag = "DuplicateFileName"
    ELSE EntryPrecedence(s, r, i + 1, byKey)

\* the result is the one of the first defect in the order disc name, sector
\* count, cycle, low bits of the entry count, entries by index
Precedence(s, r, byKey) ==
    IF ~ValidDiscName(s) THEN IsErr(r, "InvalidDiscData", NameOffset(FirstNameEnd(s)))
    ELSE IF DeclaredSectors(s) < 2 THEN IsErr(r, "InvalidDiscData", 263)
    ELSE IF At(s, 260) \div 16 > 9 \/ At(s, 260) % 16 > 9 THEN IsErr(r, "InvalidDiscData", 260)
    ELSE IF At(s, 261) % 8 # 0 THEN IsErr(r, "InvalidDiscData", 261)
    ELSE EntryPrecedence(s, r, 0, byKey)

\* C29: when an image of at least 512 bytes has several defects, from_bytes
\* reports the first one in the order disc name, sector count (0x107), cycle
\* (0x104), entry count low bits (0x105), then the entries by ascending index
\* and within an entry directory byte, name bytes, start sector below 2, data
\* end beyond the image, duplicate key; it succeeds only without a defect.
C29_ErrorPrecedence ==
    (Decoded /\ Len(src) >= 512) => Precedence(src, ret, TRUE)

\* the same order, a duplicate being an entry equal to an earlier one in every
\* field
PrecedenceOfDetectedDefects ==
    (Decoded /\ Len(src) >= 512) => Precedence(src, ret, FALSE)

-----------------------------------------------------------------------------
(* Sector arithmetic at its limits: Discs of up to MAX_FILES files with     *)
(* contents up to 0x3FFFF bytes are written, and images whose entries carry *)
(* every busy byte are decoded.                                             *)

\* the i-th file of a full Disc: $.A, $.B, ... with a content of n bytes
FullFile(i, n) == File_new(<<65 + i>>, 36, 0, 0, FALSE, Content(n, 1 + i))

\* the first k files, the first m of them of 0x3FFFF bytes and the others of n
FilesOf(k, m, n) ==
    {FullFile(i, IF i < m THEN 262143 ELSE n) : i \in 0..(k - 1)}

\* content lengths of 0, 1, 1, 2, 25 and 27 sectors
OverflowLens == {0, 1, 256, 257, 6400, 6657}

\* Discs of 0 to 31 files of each of these lengths, Discs of 1, 2 and 31
\* files of 0x3FFFF bytes, and 30 files of 25 sectors with one of 0x3FFFF bytes
OverflowStarts ==
    {FilesOf(k, 0, n) : k \in 0..MAX_FILES, n \in OverflowLens}
      \cup {FilesOf(k, k, 0) : k \in {1, 2, MAX_FILES}}
      \cup {FilesOf(MAX_FILES, 1, 6400)}

InitOverflow ==
    /\ src = <<>>
    /\ \E files \in OverflowStarts : disc = [Disc_new EXCEPT !.files = files]
    /\ ret = None
    /\ target = <<>>
    /\ pc = [op |-> "init", added |-> <<>>, adds |-> 0]

\* the length and start bytes tried with every busy byte
OverflowFields == {<<255, 255, 255>>, <<1, 0, 2>>, <<0, 0, 0>>}

NextOverflow ==
    \/ WriteImage
    \/ /\ disc = Disc_new
       /\ \E i \in {0, 1}, busy \in 0..255, f \in OverflowFields :
             FromBytes(EntryImage(i, copy_space_padded(7, SmallName) \o <<36>>,
                                  <<0, 0, 0, 0, f[1], f[2], busy, f[3]>>, TwoDataSectors))

SpecOverflow == InitOverflow /\ [][NextOverflow]_vars

\* C30: for every Disc with at most 31 files, each of content length
\* <= 0x3FFFF, the 16-bit running start sector of to_image does not overflow:
\* InputTooLarge(0x10000) is never returned and every size failure is
\* InputTooLarge(end sector) of the 800-sector check; in from_bytes
\* start_sector * 256 + length stays within 32 bits for every busy byte and
\* field value, so no entry reaching beyond the image is accepted.
C30_NoOverflow ==
    /\ (/\ pc.op = "to_image"
        /\ Cardinality(disc.files) <= 31
        /\ \A f \in disc.files : Len(f.content) <= 262143)
         => LET end == 2 + SumSectors(disc.files)
            IN  /\ end <= 65535
                /\ ret # Err(InputTooLarge(65536))
                /\ ~ret.ok => (end > 800 /\ ret = Err(InputTooLarge(end)))
    /\ Decoded =>
         \A i \in 0..(MAX_FILES - 1) :
             /\ EntryStart(src, i) * 256 + EntryLen(src, i) <= 1023 * 256 + 262143
             /\ (/\ i < EntryCount(src)
                 /\ EntryStart(src, i) * 256 + EntryLen(src, i) > Len(src)) => ~ret.ok

\* 31 files of 0x3FFFF bytes: the running total ends at 31746 and the Disc is
\* rejected by the 800-sector check
C30_Witness ==
    /\ pc.op = "to_image"
    /\ Cardinality(disc.files) = 31
    /\ \A f \in disc.files : Len(f.content) = 262143
    /\ ret = Err(InputTooLarge(31746))

\* an entry with every bit of busy byte, length and start sector set
C30_WitnessDecode ==
    /\ Decoded
    /\ EntryBusy(src, 1) = 255
    /\ EntryStart(src, 1) = 1023
    /\ EntryLen(src, 1) = 262143
    /\ ret = Err(InvalidDiscData(278))

=============================================================================
